---------------------------- MODULE Spec2Model ----------------------------
(***************************************************************************)
(* A model of the drunken-diver library: the byte decoder and note glyphs  *)
(* of src/src/minutiae.rs and the Row, Dive and Route of src/src/lib.rs.   *)
(*                                                                         *)
(* Spec        one caller driving one Dive over a byte source, at the      *)
(*             granularity of single cursor steps; the caller is either    *)
(*             Route::from followed by Display (run twice over the same    *)
(*             input, as main.rs does) or a direct user of the iterator    *)
(*             who keeps polling after the end of the sequence.            *)
(* FairSpec    Spec with weak fairness of the next-state relation: the     *)
(*             program is sequential and never blocks.                     *)
(* DecoderSpec the pure functions of minutiae.rs applied to every byte.    *)
(***************************************************************************)
EXTENDS Integers, Sequences, FiniteSets

\* ------------------------------------------------------------------ bounds

\* WIDTH ranges over 0..MaxWidth (WIDTH is a const generic of Row/Dive/Route).
MaxWidth == 16
\* The byte source holds at most MaxBytes bytes.
MaxBytes == 3
\* A direct user of the iterator polls at most this many times after the
\* first end-of-sequence.
MaxExtraCalls == 2

\* The bytes a source is made of, one for every pair of direction bits
\* (bit 0, bit 4) and with several styles: 0x00, 0x0D, 0xF0, 0xB3.
ByteSet == {0, 13, 240, 179}

BoundedSeq(S, n) == UNION {[1..k -> S] : k \in 0..n}

\* Option<T>
None == <<>>
Some(x) == <<x>>

\* A string is a sequence of characters.
Repeat(c, n) == [k \in 1..n |-> c]

\* usize::saturating_sub
saturating_sub(a, b) == IF a > b THEN a - b ELSE 0

\* ---------------------------------------------------------- minutiae.rs

U3_from(byte) == byte % 8

Style_from(u3) ==
    CASE u3 = 0 -> "Style0"
      [] u3 = 1 -> "Style1"
      [] u3 = 2 -> "Style2"
      [] u3 = 3 -> "Style3"
      [] u3 = 4 -> "Style4"
      [] u3 = 5 -> "Style5"
      [] u3 = 6 -> "Style6"
      [] u3 = 7 -> "Style7"
      [] OTHER -> "unreachable"

\* Mutant: the two arms exchanged.
Direction_from_swapped(b) == IF b THEN "Left" ELSE "Right"

Direction_from(b) == IF b THEN "Right" ELSE "Left"

\* Mutant: the second style taken from the high nibble (byte >> 4).
DSPair_from_nibble(byte) ==
    << << Direction_from(byte % 2 = 0),
          Style_from(U3_from((byte \div 2) % 8)) >>,
       << Direction_from((byte \div 16) % 2 = 0),
          Style_from(U3_from(byte \div 16)) >> >>

\* Mutant: the two instructions of the pair in the other order.
DSPair_from_reversed(byte) ==
    << << Direction_from((byte \div 16) % 2 = 0),
          Style_from(U3_from(byte \div 32)) >>,
       << Direction_from(byte % 2 = 0),
          Style_from(U3_from((byte \div 2) % 8)) >> >>

\* byte & 0b1 is byte % 2, byte >> n is byte \div 2^n.
DSPair_from(byte) ==
    << << Direction_from(byte % 2 = 0),
          Style_from(U3_from((byte \div 2) % 8)) >>,
       << Direction_from((byte \div 16) % 2 = 0),
          Style_from(U3_from(byte \div 32)) >> >>

\* enum Note { Empty, Full(Direction, Style) }
Empty == <<>>
Full(d, s) == <<d, s>>

\* Mutant: the glyphs p, b and q, d for the styles 6 and 7.
Note_fmt_glossary(note) ==
    CASE note = Empty -> " "
      [] note = Full("Right", "Style0") -> ">"
      [] note = Full("Right", "Style1") -> "."
      [] note = Full("Right", "Style2") -> "*"
      [] note = Full("Right", "Style3") -> "o"
      [] note = Full("Right", "Style4") -> "x"
      [] note = Full("Right", "Style5") -> ")"
      [] note = Full("Right", "Style6") -> "p"
      [] note = Full("Right", "Style7") -> "b"
      [] note = Full("Left", "Style0") -> "<"
      [] note = Full("Left", "Style1") -> "~"
      [] note = Full("Left", "Style2") -> "="
      [] note = Full("Left", "Style3") -> "_"
      [] note = Full("Left", "Style4") -> "!"
      [] note = Full("Left", "Style5") -> "("
      [] note = Full("Left", "Style6") -> "q"
      [] note = Full("Left", "Style7") -> "d"

Note_fmt(note) ==
    CASE note = Empty -> " "
      [] note = Full("Right", "Style0") -> ">"
      [] note = Full("Right", "Style1") -> "."
      [] note = Full("Right", "Style2") -> "*"
      [] note = Full("Right", "Style3") -> "o"
      [] note = Full("Right", "Style4") -> "x"
      [] note = Full("Right", "Style5") -> ")"
      [] note = Full("Right", "Style6") -> "+"
      [] note = Full("Right", "Style7") -> "U"
      [] note = Full("Left", "Style0") -> "<"
      [] note = Full("Left", "Style1") -> "~"
      [] note = Full("Left", "Style2") -> "="
      [] note = Full("Left", "Style3") -> "_"
      [] note = Full("Left", "Style4") -> "!"
      [] note = Full("Left", "Style5") -> "("
      [] note = Full("Left", "Style6") -> "T"
      [] note = Full("Left", "Style7") -> "A"

\* ------------------------------------------------------------------ state

VARIABLES
    WIDTH,      \* the const generic WIDTH
    bytes,      \* the whole byte source handed to Dive::from
    caller,     \* "Route" (Route::from, then Display) or "direct"
    iter,       \* Dive.iter: the bytes not pulled yet
    row,        \* Dive.row: [notes, loc], the fields .0 and .1 of Row
    buffered,   \* Dive.buffered
    pc,         \* where the program is
    stage,      \* which go() of next() is running: "buf", "first", "second"
    cur,        \* the (d, s) of the running go()
    pend,       \* the (d2, s2) of the byte being processed
    home,       \* the home argument of settle()
    i,          \* iterations done of the forced-advance for loop
    go_down,    \* the value the journey returned
    out,        \* every value next() has returned, in order
    route,      \* the Route built by Route::from, None before
    text,       \* the lines written by Display for Route, None before
    run,        \* 1 or 2: which of the two runs over the same input
    prev,       \* the Route and text of run 1, None during run 1
    written,    \* history: writes to each column of the live row
    pulled,     \* history: bytes pulled from the source
    applied,    \* history: instructions applied (calls of go)
    finalAt,    \* history: index in out of the leftover row, 0 if none
    byte,       \* DecoderSpec: the byte under decoding
    decoded,    \* DecoderSpec: DSPair::from(byte), None before
    shown       \* DecoderSpec: the glyphs of the decoded notes and of Empty

diveVars == <<iter, row, buffered>>
localVars == <<stage, cur, pend, home, i, go_down>>
histVars == <<written, pulled, applied, finalAt>>
decVars == <<byte, decoded, shown>>
vars == <<WIDTH, bytes, caller, iter, row, buffered, pc, stage, cur, pend,
          home, i, go_down, out, route, text, run, prev, written, pulled,
          applied, finalAt, byte, decoded, shown>>

\* ------------------------------------------------------------- lib.rs: Row

Cols == 0..(WIDTH - 1)

EMPTY_ARR == [c \in Cols |-> Empty]

MIN_MARGIN == WIDTH \div 8

\* Mutant: every new row starts at the centre column.
Row_new_centre(loc) == [notes |-> EMPTY_ARR, loc |-> WIDTH \div 2]

Row_new(loc) == [notes |-> EMPTY_ARR, loc |-> loc]

\* Mutant: the note is not stored.
set_note_skip(r, note) == r

set_note(r, note) == [r EXCEPT !.notes[r.loc] = note]
\* Mutant: the test inverted.
is_note_empty_inverted(r) == r.notes[r.loc] # Empty

is_note_empty(r) == r.notes[r.loc] = Empty

get_loc(r) == r.loc

\* Mutant: the test inverted.
is_empty_inverted(r) == r.notes # EMPTY_ARR

is_empty(r) == r.notes = EMPTY_ARR

\* Mutant: off by one, the last column is not seen as rightmost.
is_rightmost_late(r) == r.loc >= WIDTH

is_rightmost(r) == r.loc + 1 >= WIDTH
is_leftmost(r) == r.loc <= 0

go_rightmost(r) == [r EXCEPT !.loc = saturating_sub(WIDTH, 1)]
go_leftmost(r) == [r EXCEPT !.loc = 0]

go_right_unchecked(r) == [r EXCEPT !.loc = @ + 1]
go_left_unchecked(r) == [r EXCEPT !.loc = @ - 1]

go_right_wrapping(r) ==
    IF is_rightmost(r) THEN go_leftmost(r) ELSE go_right_unchecked(r)
go_left_wrapping(r) ==
    IF is_leftmost(r) THEN go_rightmost(r) ELSE go_left_unchecked(r)

\* The direction-dependent parts of journey_right / journey_left.
go_wrapping(r, d) ==
    IF d = "Right" THEN go_right_wrapping(r) ELSE go_left_wrapping(r)
\* Mutant: the free step leaves the cursor where it is.
go_unchecked_stay(r, d) == r

go_unchecked(r, d) ==
    IF d = "Right" THEN go_right_unchecked(r) ELSE go_left_unchecked(r)
\* Mutant: either edge ends the line, whatever the direction.
is_edge_any(r, d) == is_rightmost(r) \/ is_leftmost(r)

is_edge(r, d) ==
    IF d = "Right" THEN is_rightmost(r) ELSE is_leftmost(r)

Row_fmt(r) == [k \in 1..WIDTH |-> Note_fmt(r.notes[k - 1])]

\* ----------------------------------------------------------- lib.rs: Dive

\* Mutant: the starting column is kept from the run before.
DiveStart_persisted ==
    IF route # None THEN route[1].end ELSE WIDTH \div 2

DiveStart == WIDTH \div 2

NoWrites == [c \in Cols |-> 0]

IdleLocals ==
    /\ stage = "none"
    /\ cur = <<>>
    /\ pend = <<>>
    /\ home = 0
    /\ i = 0
    /\ go_down = FALSE

IdleLocals1 ==
    /\ stage' = "none"
    /\ cur' = <<>>
    /\ pend' = <<>>
    /\ home' = 0
    /\ i' = 0
    /\ go_down' = FALSE

\* Dive::from
DiveFrom ==
    /\ iter = bytes
    /\ row = Row_new(DiveStart)
    /\ buffered = None

Init ==
    /\ WIDTH \in 0..MaxWidth
    /\ bytes \in BoundedSeq(ByteSet, MaxBytes)
    /\ caller \in {"Route", "direct"}
    /\ run = 1
    /\ prev = None
    /\ route = None
    /\ text = None
    /\ DiveFrom
    /\ pc = "call"
    /\ IdleLocals
    /\ out = <<>>
    /\ written = NoWrites
    /\ pulled = 0
    /\ applied = 0
    /\ finalAt = 0
    /\ byte = 0
    /\ decoded = None
    /\ shown = None

\* Mutant: the live row keeps its notes and only takes the new cursor.
mem_replace_keep(new) == [row EXCEPT !.loc = new.loc]

\* Mutant: the new row starts where the journey of the old one ended.
mem_replace_cursor(new) == [new EXCEPT !.loc = row.loc]

\* std::mem::replace(&mut self.row, new): the value left in self.row.
mem_replace(new) == new

\* The algorithm of the doc comment of Dive::go, run on the live row r
\* after the note was left at its cursor: the cursor it ends on, and
\* whether the old row is returned.
\* "Repeat: if going one space in direction d would put the diver past
\* the edges of the row, [...] return the old row. Otherwise, the diver
\* goes one space in direction d. If the space is empty, return None."
RECURSIVE go_doc_repeat(_, _)
go_doc_repeat(r, d) ==
    IF (d = "Right" /\ r.loc + 1 >= WIDTH) \/ (d = "Left" /\ r.loc = 0)
    THEN [loc |-> r.loc, down |-> TRUE]
    ELSE LET n == [r EXCEPT !.loc = IF d = "Right" THEN @ + 1 ELSE @ - 1]
         IN  IF n.notes[n.loc] = Empty
             THEN [loc |-> n.loc, down |-> FALSE]
             ELSE go_doc_repeat(n, d)

\* "Repeat MIN_MARGIN times: the diver goes one space in direction d,
\* wrapping to the other side of the row if necessary. Then, if the space
\* is empty, return None."
RECURSIVE go_doc_margin(_, _, _)
go_doc_margin(r, d, k) ==
    IF k = 0
    THEN go_doc_repeat(r, d)
    ELSE LET n == [r EXCEPT !.loc =
                      IF d = "Right"
                      THEN (IF @ + 1 >= WIDTH THEN 0 ELSE @ + 1)
                      ELSE (IF @ = 0 THEN WIDTH - 1 ELSE @ - 1)]
         IN  IF n.notes[n.loc] = Empty
             THEN [loc |-> n.loc, down |-> FALSE]
             ELSE go_doc_margin(n, d, k - 1)

go_doc(r, d) == go_doc_margin(r, d, MIN_MARGIN)

\* Dive::go, up to the entry of the journey: the note is written at the
\* cursor (indexing panics when the cursor is no index of the array) and
\* the cursor is passed on as home.
Go(ds, st) ==
    IF row.loc \in Cols
    THEN /\ row' = set_note(row, Full(ds[1], ds[2]))
         /\ written' = [written EXCEPT ![row.loc] = @ + 1]
         /\ applied' = applied + 1
         /\ home' = get_loc(row)
         /\ cur' = ds
         /\ stage' = st
         /\ i' = 0
         /\ go_down' = FALSE
         /\ pc' = "journey"
    ELSE /\ pc' = "panic"
         /\ UNCHANGED <<row, written, applied, home, cur, stage, i, go_down>>

\* next() returns v to its caller. Route::from's collect stops at the
\* first None; a direct caller goes on polling.
Return(v) ==
    /\ out' = Append(out, v)
    /\ pc' = IF v = None /\ caller = "Route" THEN "collected" ELSE "call"
    /\ IdleLocals1

Nones == Cardinality({k \in 1..Len(out) : out[k] = None})

\* A call of next(): the buffered instruction, if any, is taken and applied.
Call ==
    /\ pc = "call"
    /\ Nones <= MaxExtraCalls
    /\ IF buffered # None
       THEN /\ buffered' = None
            /\ Go(buffered[1], "buf")
            /\ UNCHANGED <<pend>>
       ELSE /\ pc' = "pull"
            /\ UNCHANGED <<row, buffered, localVars, written, applied>>
    /\ UNCHANGED <<WIDTH, bytes, caller, iter, out, route, text, run, prev,
                   pulled, finalAt, decVars>>

\* The head of the while loop of next(), and what follows the loop.
Pull ==
    /\ pc = "pull"
    /\ IF iter # <<>>
       THEN /\ iter' = Tail(iter)
            /\ pulled' = pulled + 1
            /\ pend' = DSPair_from(Head(iter))[2]
            /\ Go(DSPair_from(Head(iter))[1], "first")
            /\ UNCHANGED <<out, finalAt>>
       ELSE IF is_empty(row)
       THEN /\ Return(None)
            /\ UNCHANGED <<iter, row, written, pulled, applied, finalAt>>
       ELSE /\ Return(Some(row))
            /\ row' = mem_replace(Row_new(get_loc(row)))
            /\ written' = NoWrites
            /\ finalAt' = Len(out) + 1
            /\ UNCHANGED <<iter, pulled, applied>>
    /\ UNCHANGED <<WIDTH, bytes, caller, buffered, route, text, run, prev,
                   decVars>>

\* One iteration of the forced-advance loop of journey_right/journey_left.
Forced ==
    /\ pc = "journey"
    /\ i < MIN_MARGIN
    /\ IF is_note_empty(row)
       THEN /\ go_down' = FALSE
            /\ pc' = "settle"
            /\ UNCHANGED <<row, i>>
       ELSE /\ row' = go_wrapping(row, cur[1])
            /\ i' = i + 1
            /\ UNCHANGED <<go_down, pc>>
    /\ UNCHANGED <<WIDTH, bytes, caller, iter, buffered, stage, cur, pend,
                   home, out, route, text, run, prev, histVars, decVars>>

\* One iteration of the free-advance loop of journey_right/journey_left.
Free ==
    /\ pc = "journey"
    /\ i >= MIN_MARGIN
    /\ IF is_note_empty(row)
       THEN /\ go_down' = FALSE
            /\ pc' = "settle"
            /\ UNCHANGED row
       ELSE IF is_edge(row, cur[1])
       THEN /\ go_down' = TRUE
            /\ pc' = "settle"
            /\ UNCHANGED row
       ELSE /\ row' = go_unchecked(row, cur[1])
            /\ UNCHANGED <<go_down, pc>>
    /\ UNCHANGED <<WIDTH, bytes, caller, iter, buffered, stage, cur, pend,
                   home, i, out, route, text, run, prev, histVars, decVars>>

\* settle() after a journey that returned true: the live row is replaced
\* by Row::new(home) and returned by next(); after the first instruction
\* of a byte the second one is buffered.
Descend ==
    /\ pc = "settle"
    /\ go_down
    /\ row' = mem_replace(Row_new(home))
    /\ written' = NoWrites
    /\ buffered' = IF stage = "first" THEN Some(pend) ELSE buffered
    /\ Return(Some(row))
    /\ UNCHANGED <<WIDTH, bytes, caller, iter, route, text, run, prev,
                   pulled, applied, finalAt, decVars>>

\* settle() after a journey that returned false: go() returns None and
\* next() goes on, with the second instruction of the byte or with the
\* next byte.
Stay ==
    /\ pc = "settle"
    /\ ~go_down
    /\ IF stage = "first"
       THEN /\ Go(pend, "second")
            /\ UNCHANGED <<pend>>
       ELSE /\ pc' = "pull"
            /\ IdleLocals1
            /\ UNCHANGED <<row, written, applied>>
    /\ UNCHANGED <<WIDTH, bytes, caller, iter, buffered, out, route, text,
                   run, prev, pulled, finalAt, decVars>>

\* ---------------------------------------------------------- lib.rs: Route

\* Mutant: the default of an empty route is column 0.
Route_end_zero(vec) == IF vec = <<>> THEN 0 ELSE vec[Len(vec)].loc

\* vec.last().map(|Row(_, v)| *v).unwrap_or(WIDTH/2)
Route_end(vec) == IF vec = <<>> THEN WIDTH \div 2 ELSE vec[Len(vec)].loc

\* What collect() gathers: the rows returned before the first None.
Collected == [k \in 1..(Len(out) - 1) |-> out[k][1]]

\* Route::from, after collect() has drained the Dive.
RouteFrom ==
    /\ pc = "collected"
    /\ route' = Some([route |-> Collected, end |-> Route_end(Collected)])
    /\ pc' = "routed"
    /\ UNCHANGED <<WIDTH, bytes, caller, diveVars, localVars, out, text, run,
                   prev, histVars, decVars>>

Wrap(l, mid, r) == <<l>> \o mid \o <<r>>

Route_fmt(rt) ==
    << Wrap("+", Repeat("-", saturating_sub(WIDTH \div 2, 1)) \o <<"v">>
                 \o Repeat("-", WIDTH - (WIDTH \div 2)), "+") >>
    \o [k \in 1..Len(rt.route) |-> Wrap("|", Row_fmt(rt.route[k]), "|")]
    \o << Wrap("+", Repeat("-", rt.end) \o <<"v">>
                 \o Repeat("-", saturating_sub(WIDTH - rt.end, 1)), "+") >>

\* Display for Route. WIDTH - self.end is a usize subtraction: it
\* overflows when end > WIDTH.
Display ==
    /\ pc = "routed"
    /\ IF route[1].end > WIDTH
       THEN /\ pc' = "panic"
            /\ UNCHANGED text
       ELSE /\ text' = Some(Route_fmt(route[1]))
            /\ pc' = "done"
    /\ UNCHANGED <<WIDTH, bytes, caller, diveVars, localVars, out, route,
                   run, prev, histVars, decVars>>

\* The caller renders the same input a second time, from a new Dive.
Again ==
    /\ pc = "done"
    /\ run = 1
    /\ run' = 2
    /\ prev' = Some([out |-> out, route |-> route[1], text |-> text[1]])
    /\ iter' = bytes
    /\ row' = Row_new(DiveStart)
    /\ buffered' = None
    /\ pc' = "call"
    /\ out' = <<>>
    /\ route' = None
    /\ text' = None
    /\ written' = NoWrites
    /\ pulled' = 0
    /\ applied' = 0
    /\ finalAt' = 0
    /\ UNCHANGED <<WIDTH, bytes, caller, localVars, decVars>>

Next ==
    \/ Call
    \/ Pull
    \/ Forced
    \/ Free
    \/ Descend
    \/ Stay
    \/ RouteFrom
    \/ Display
    \/ Again

Spec == Init /\ [][Next]_vars

FairSpec == Spec /\ WF_vars(Next)

\* ------------------------------------------- minutiae.rs on its own

\* The walk is not running while the decoder is exercised.
NoWalk ==
    /\ WIDTH = 0
    /\ bytes = <<>>
    /\ caller = "none"
    /\ run = 1
    /\ prev = None
    /\ route = None
    /\ text = None
    /\ DiveFrom
    /\ pc = "decoder"
    /\ IdleLocals
    /\ out = <<>>
    /\ written = NoWrites
    /\ pulled = 0
    /\ applied = 0
    /\ finalAt = 0

walkVars == <<WIDTH, bytes, caller, iter, row, buffered, pc, stage, cur,
              pend, home, i, go_down, out, route, text, run, prev, written,
              pulled, applied, finalAt>>

DecoderInit ==
    /\ byte \in 0..255
    /\ decoded = None
    /\ shown = None
    /\ NoWalk

\* DSPair::from(byte), as next() calls it on a pulled byte.
Decode ==
    /\ decoded = None
    /\ decoded' = Some(DSPair_from(byte))
    /\ UNCHANGED <<byte, shown, walkVars>>

\* Display for Note, on the two notes go() writes for the byte and on the
\* note of a cell never written.
Show ==
    /\ decoded # None
    /\ shown = None
    /\ shown' = Some(<< Note_fmt(Full(decoded[1][1][1], decoded[1][1][2])),
                        Note_fmt(Full(decoded[1][2][1], decoded[1][2][2])),
                        Note_fmt(Empty) >>)
    /\ UNCHANGED <<byte, decoded, walkVars>>

DecoderNext ==
    \/ Decode
    \/ Show

DecoderSpec == DecoderInit /\ [][DecoderNext]_vars

\* ------------------------------------------------------------- properties

Bit(b, k) == (b \div (2 ^ k)) % 2

StyleNames ==
    <<"Style0", "Style1", "Style2", "Style3",
      "Style4", "Style5", "Style6", "Style7">>

Instr(k) == decoded[1][k]

C2_Styles ==
    decoded # None =>
        /\ Len(decoded[1]) = 2
        /\ \A k \in 1..2 : Len(Instr(k)) = 2 /\ Instr(k)[2] # "unreachable"
        /\ Instr(1)[2] = StyleNames[((byte \div 2) % 8) + 1]
        /\ Instr(2)[2] = StyleNames[(byte \div 32) + 1]

\* 0xB3 carries style 1 in bits 1-3 and style 5 in bits 5-7.
C2_Witness ==
    /\ byte = 179
    /\ decoded # None
    /\ Instr(1)[2] = "Style1"
    /\ Instr(2)[2] = "Style5"

\* C3: for every WIDTH >= 1, in every state of a walk (after construction,
\* after every cursor step of a journey, after every instruction and every
\* call of next) the cursor of the live row is in 0..WIDTH-1.
C3_CursorInRange ==
    WIDTH >= 1 => row.loc \in 0..(WIDTH - 1)

\* A forced step of a rightward journey has wrapped from the last column
\* to column 0.
C3_Witness ==
    /\ WIDTH >= 8
    /\ pc = "journey"
    /\ cur[1] = "Right"
    /\ home = WIDTH - 1
    /\ i = 1
    /\ row.loc = 0

\* C4: rows are write-once: over the lifetime of a row no column is
\* written more than once, the columns written are exactly the Full ones,
\* and whenever an instruction is about to be applied the cursor is on an
\* Empty cell.
C4_WriteOnce ==
    WIDTH >= 1 =>
        /\ \A c \in Cols : written[c] <= 1
        /\ \A c \in Cols : (written[c] = 1) <=> (row.notes[c] # Empty)
        /\ (pc \in {"call", "pull"} \/ (pc = "settle" /\ ~go_down))
              => row.notes[row.loc] = Empty

\* A journey has run over cells written earlier and settled beyond them,
\* in a row that holds three notes.
C4_Witness ==
    /\ WIDTH >= 8
    /\ pc = "settle"
    /\ ~go_down
    /\ Cardinality({c \in Cols : written[c] = 1}) >= 3
    /\ row.loc - home > 2

Rows == {k \in 1..Len(out) : out[k] # None}

\* C5: for every WIDTH >= 1, an empty byte source yields no row (the
\* first call of next reports end-of-sequence) and the closing cursor of
\* the Route is WIDTH/2, floored.
C5_EmptySource ==
    (WIDTH >= 1 /\ bytes = <<>>) =>
        /\ Rows = {}
        /\ pc \in {"collected", "routed", "done"} => out = <<None>>
        /\ route # None =>
              /\ route[1].route = <<>>
              /\ route[1].end = WIDTH \div 2

\* The Route of an empty source of width 5 closes at column 2.
C5_Witness ==
    /\ WIDTH = 5
    /\ bytes = <<>>
    /\ route # None
    /\ route[1].end = 2

Running == pc \in {"pull", "journey", "settle"}

\* C6: for every WIDTH >= 1 and every byte source, every call of next
\* returns (the journeys inside it end after finitely many cursor steps)
\* and repeated calls reach end-of-sequence.
C6_Terminates ==
    /\ [](((WIDTH >= 1) /\ Running) => <>(pc \in {"call", "collected"}))
    /\ ((WIDTH >= 1) => <>(Nones >= 1))

\* End-of-sequence has been reported after six instructions and a descent
\* in a width with a forced-advance phase.
C6_Witness ==
    /\ WIDTH >= 8
    /\ Nones >= 1
    /\ Cardinality(Rows) >= 1
    /\ applied >= 6

\* C7: in every state of a walk the rows yielded so far (the leftover row
\* included) are at most the instructions applied so far, which are at
\* most twice the bytes pulled; the Route of a source of N bytes holds at
\* most 2N rows.
C7_RowsBounded ==
    /\ Cardinality(Rows) <= applied
    /\ applied <= 2 * pulled
    /\ route # None => Len(route[1].route) <= 2 * Len(bytes)

\* A Route of three rows, the last of them the leftover row.
C7_Witness ==
    /\ route # None
    /\ finalAt = 3
    /\ Len(route[1].route) = 3

AllEmpty(r) == \A c \in Cols : r.notes[c] = Empty

\* C8: when the source is exhausted and the call has produced no row,
\* next reports end-of-sequence if the live row is fully Empty and
\* otherwise yields the live row as it is, leaving a new Empty row and no
\* buffered instruction; every value returned after an end-of-sequence or
\* after that final row is end-of-sequence.
C8_EndProtocol ==
    /\ [][(pc = "pull" /\ iter = <<>>) =>
             IF AllEmpty(row)
             THEN out' = Append(out, None)
             ELSE /\ out' = Append(out, Some(row))
                  /\ AllEmpty(row')
                  /\ buffered' = None]_vars
    /\ [](\A k \in 1..Len(out) : \A j \in (k + 1)..Len(out) :
             (out[k] = None \/ k = finalAt) => out[j] = None)

\* A direct caller got the leftover row after an earlier row and then
\* end-of-sequence twice.
C8_Witness ==
    /\ caller = "direct"
    /\ finalAt >= 2
    /\ Len(out) = finalAt + 2
    /\ out[finalAt] # None
    /\ out[finalAt + 1] = None
    /\ out[finalAt + 2] = None

StyleIndex(st) == CHOOSE k \in 1..8 : StyleNames[k] = st

GlyphOf(right, left, ds) ==
    IF ds[1] = "Right" THEN right[StyleIndex(ds[2])]
                       ELSE left[StyleIndex(ds[2])]

GlyphsDistinct ==
    /\ (shown[1][1] = shown[1][2]) <=> (Instr(1) = Instr(2))
    /\ shown[1][1] # shown[1][3]
    /\ shown[1][2] # shown[1][3]

\* C10, as claimed: a note renders as a space when Empty and, when
\* Full(direction, Style k), as the k-th glyph of
\* Right -> > . * o x ) p b and Left -> < ~ = _ ! ( q d.
C10_GlossaryGlyphs ==
    shown # None =>
        /\ shown[1][3] = " "
        /\ \A k \in 1..2 : shown[1][k] =
              GlyphOf(<<">", ".", "*", "o", "x", ")", "p", "b">>,
                      <<"<", "~", "=", "_", "!", "(", "q", "d">>, Instr(k))
        /\ GlyphsDistinct

\* C10, amended: a note renders as a space when Empty and, when
\* Full(direction, Style k), as the k-th glyph of
\* Right -> > . * o x ) + U and Left -> < ~ = _ ! ( T A; the 16 glyphs
\* are pairwise distinct and none is a space.
C10_CodeGlyphs ==
    shown # None =>
        /\ shown[1][3] = " "
        /\ \A k \in 1..2 : shown[1][k] =
              GlyphOf(<<">", ".", "*", "o", "x", ")", "+", "U">>,
                      <<"<", "~", "=", "_", "!", "(", "T", "A">>, Instr(k))
        /\ GlyphsDistinct

\* 0xFC decodes to Right/Style6 and Left/Style7, rendered + and A.
C10_Witness ==
    /\ byte = 252
    /\ shown = Some(<<"+", "A", " ">>)

\* The character of line l above or below column c of the rows (the
\* first character of a line is its left border).
AtCol(l, c) == l[c + 2]

\* C11: with WIDTH = 16 and an empty byte source the text is a top border
\* and a bottom border with no row between them, and the v of both
\* borders is at column 8, the starting column WIDTH/2.
C11_MarkersAtStart ==
    (WIDTH = 16 /\ bytes = <<>> /\ text # None) =>
        /\ Len(text[1]) = 2
        /\ AtCol(text[1][1], 8) = "v"
        /\ AtCol(text[1][2], 8) = "v"

\* C12: a Dive of WIDTH = 0 is rejected at construction: no call of next
\* ever returns, no byte is pulled and no instruction fails mid-walk.
C12_ZeroWidthRejected ==
    WIDTH = 0 =>
        /\ out = <<>>
        /\ pulled = 0
        /\ pc # "panic"

\* C13: on a descent next returns the completed row and the live row
\* becomes a new, fully Empty row whose cursor is home, the column where
\* the instruction wrote its note; while an instruction journeys and when
\* it settles no row is returned and the live row keeps its notes.
C13_DescentAndSettle ==
    /\ [](pc \in {"journey", "settle"} =>
             row.notes[home] = Full(cur[1], cur[2]))
    /\ [][(pc = "settle" /\ go_down) =>
             /\ out' = Append(out, Some(row))
             /\ AllEmpty(row')
             /\ row'.loc = home]_vars
    /\ [][(pc = "journey" \/ (pc = "settle" /\ ~go_down)) =>
             /\ out' = out
             /\ \A c \in Cols : row.notes[c] # Empty =>
                                   row'.notes[c] = row.notes[c]
             /\ pc' = "pull" => row' = row]_vars

\* A descent has left a new Empty row whose cursor is the column written
\* last, three columns away from the cursor of the row returned.
C13_Witness ==
    /\ pc = "call"
    /\ finalAt = 0
    /\ Len(out) >= 1
    /\ out[Len(out)] # None
    /\ AllEmpty(row)
    /\ out[Len(out)][1].notes[row.loc] # Empty
    /\ out[Len(out)][1].loc - row.loc >= 3

\* The k-th instruction of the byte source: 2m-1 and 2m are the first and
\* the second instruction of byte m (a clear direction bit is Right).
InstrOf(k) ==
    LET b == bytes[(k + 1) \div 2]
    IN  IF k % 2 = 1
        THEN << IF Bit(b, 0) = 0 THEN "Right" ELSE "Left",
                StyleNames[((b \div 2) % 8) + 1] >>
        ELSE << IF Bit(b, 4) = 0 THEN "Right" ELSE "Left",
                StyleNames[(b \div 32) + 1] >>

\* C14: instructions are applied one at a time in input order, the k-th
\* applied being instruction k of the source, and a byte is pulled only
\* when both instructions of the byte before have been applied; when the
\* first instruction of a byte completes a row the second one is buffered,
\* the next call applies it first and pulls no byte before it has
\* settled, and none at all when it completes a row.
C14_InputOrder ==
    /\ [](pc \in {"journey", "settle"} =>
             /\ applied >= 1
             /\ cur = InstrOf(applied)
             /\ pulled = (applied + 1) \div 2)
    /\ [](buffered # None =>
             /\ pc = "call"
             /\ applied % 2 = 1
             /\ pulled = (applied + 1) \div 2
             /\ buffered[1] = InstrOf(applied + 1))
    /\ [][run' = run =>
             /\ applied' \in {applied, applied + 1}
             /\ (pc = "settle" /\ go_down /\ stage = "first") =>
                   buffered' = Some(InstrOf(applied + 1))
             /\ (pc = "call" /\ buffered # None) =>
                   (pc' = "journey" /\ cur' = buffered[1] /\ iter' = iter)
             /\ (stage = "buf" /\ pc = "settle" /\ go_down) =>
                   (pc' = "call" /\ iter' = iter)
             /\ iter' # iter => applied = 2 * pulled]_vars

\* The buffered instruction has completed a row while a byte is still
\* waiting in the source.
C14_Witness ==
    /\ stage = "buf"
    /\ pc = "settle"
    /\ go_down
    /\ iter # <<>>
    /\ applied = 2

\* C15: a journey reports descent only on a Full cell at the edge in its
\* direction, so a row completed by a descent has its cursor at column
\* WIDTH-1 (Right) or 0 (Left); a free step moves the cursor by exactly
\* one column in the direction of travel, and only a forced step, one of
\* the first WIDTH/8 of a journey, takes it from one edge to the other.
C15_NoWrapInFreePhase ==
    /\ []((pc = "settle" /\ go_down) =>
             /\ row.loc = (IF cur[1] = "Right" THEN WIDTH - 1 ELSE 0)
             /\ row.notes[row.loc] # Empty)
    /\ [](\A k \in 1..Len(out) : (out[k] # None /\ k # finalAt) =>
             out[k][1].loc \in {0, WIDTH - 1})
    /\ [][(pc = "journey" /\ row'.loc # row.loc) =>
             \/ row'.loc = row.loc + (IF cur[1] = "Right" THEN 1 ELSE -1)
             \/ /\ i < MIN_MARGIN
                /\ row.loc = (IF cur[1] = "Right" THEN WIDTH - 1 ELSE 0)
                /\ row'.loc = (IF cur[1] = "Right" THEN 0 ELSE WIDTH - 1)]_vars

\* A leftward journey from column 1 has made its forced step onto the
\* Full cell of column 0 and reports descent there.
C15_Witness ==
    /\ WIDTH >= 8
    /\ pc = "settle"
    /\ go_down
    /\ cur[1] = "Left"
    /\ row.loc = 0
    /\ home = 1

\* C16: when WIDTH/8 >= 1 a journey starts on the Full cell its
\* instruction has just written, so its first forced iteration steps, and
\* an instruction that settles does so on a column other than the one it
\* wrote, after at least one step.
C16_FirstHopForced ==
    MIN_MARGIN >= 1 =>
        /\ (pc = "journey" /\ i = 0) =>
              (row.loc = home /\ row.notes[row.loc] # Empty)
        /\ pc = "settle" => (i >= 1 /\ (~go_down => row.loc # home))

\* The first forced step of a leftward journey from column 0 has wrapped
\* to the last column, which is Empty.
C16_Witness ==
    /\ MIN_MARGIN >= 1
    /\ pc = "settle"
    /\ ~go_down
    /\ cur[1] = "Left"
    /\ home = 0
    /\ row.loc = WIDTH - 1
    /\ i = 1

\* C17: for every WIDTH >= 1, every reachable live row and both
\* directions, the journey as implemented ends on the cursor and with the
\* descend/settle outcome that the algorithm documented on go gives from
\* the same row with the cursor on the column just written.
C17_DocAlgorithmAgrees ==
    (WIDTH >= 1 /\ pc = "settle") =>
        LET doc == go_doc([row EXCEPT !.loc = home], cur[1])
        IN  /\ doc.loc = row.loc
            /\ doc.down = go_down

\* With a margin of 2, a rightward journey has made both forced steps,
\* the second from a Full cell, and settled with free steps beyond.
C17_Witness ==
    /\ MIN_MARGIN = 2
    /\ pc = "settle"
    /\ ~go_down
    /\ cur[1] = "Right"
    /\ i = 2
    /\ row.loc - home >= 3

\* The Full notes of the rows returned so far.
FullNotes ==
    {kc \in Rows \X Cols : out[kc[1]][1].notes[kc[2]] # Empty}

\* C18: once a walk over N bytes has reported end-of-sequence, the rows
\* it returned hold exactly 2N Full notes between them, and neither a
\* written live row nor a buffered instruction is left behind.
C18_EveryNoteYielded ==
    Nones >= 1 =>
        /\ Cardinality(FullNotes) = 2 * Len(bytes)
        /\ AllEmpty(row)
        /\ buffered = None

\* A source of three bytes has been drained into three rows or more, the
\* last of them the leftover row.
C18_Witness ==
    /\ Nones >= 1
    /\ Len(bytes) = 3
    /\ finalAt >= 3
    /\ Cardinality(FullNotes) = 6

\* C19: between calls, an instruction is in the buffer only when the last
\* value returned is a row, and then the live row is fully Empty with its
\* cursor on the column of that row where the instruction before wrote
\* its note; buffering happens together with the replacement of the live
\* row by an Empty one at home; and after the leftover row or an
\* end-of-sequence was returned the buffer is empty.
C19_BufferedStartsRow ==
    /\ [](buffered # None =>
             /\ pc = "call"
             /\ Len(out) >= 1
             /\ out[Len(out)] # None
             /\ AllEmpty(row)
             /\ out[Len(out)][1].notes[row.loc] = InstrOf(applied))
    /\ [][(pc = "settle" /\ go_down /\ stage = "first") =>
             /\ buffered' # None
             /\ AllEmpty(row')
             /\ row'.loc = home]_vars
    /\ []((Len(out) >= 1 /\ (out[Len(out)] = None \/ Len(out) = finalAt))
             => buffered = None)

\* An instruction waits in the buffer while the new live row has its
\* cursor away from the centre column.
C19_Witness ==
    /\ pc = "call"
    /\ buffered # None
    /\ WIDTH >= 3
    /\ row.loc # WIDTH \div 2
    /\ AllEmpty(row)

\* C20: for every WIDTH >= 1 every line of the rendered Route, borders
\* and rows alike, has exactly WIDTH + 2 characters, and rendering never
\* fails on the dash counts of the bottom border.
C20_LinesAligned ==
    WIDTH >= 1 =>
        /\ pc = "routed" => route[1].end < WIDTH
        /\ text # None =>
              \A k \in 1..Len(text[1]) : Len(text[1][k]) = WIDTH + 2

=============================================================================
